---- MODULE Spec2Model ----
(***************************************************************************)
(* Positional bookkeeping of codeprep: per-line subtoken counts            *)
(* (PureSnippetStructure), snippets tied to a file location                *)
(* (SnippetStructure), the corpus-wide list of snippets                    *)
(* (CodeBaseStructure) and the two iterators.                              *)
(*                                                                         *)
(* Python lists are 0-based, TLA+ sequences 1-based: a Python index k is   *)
(* the TLA+ index k + 1 everywhere below.                                  *)
(***************************************************************************)
EXTENDS Integers, Sequences, FiniteSets, TLC

\* ------------------------------------------------------------------ bounds
\* Snippet-level inputs: at most MaxLines lines of 0..MaxCount subtokens each.
MaxLines == 2
MaxCount == 2
\* Corpus-level runs: at most MaxOps calls on the code base structures.
MaxOps == 3

\* The small sets the other inputs are drawn from
Paths == {"a", "b"}
FirstLines == 1..2
Cols == 0..1

\* ----------------------------------------------------------- python helpers
Min(a, b) == IF a < b THEN a ELSE b

\* s[:k] for 0 <= k
Take(s, k) == SubSeq(s, 1, Min(k, Len(s)))

\* s[k:] for 0 <= k
Drop(s, k) == IF k >= Len(s) THEN << >> ELSE SubSeq(s, k + 1, Len(s))

\* s[-1] of a non-empty list
Last(s) == s[Len(s)]

RECURSIVE SumSeq(_)
SumSeq(s) == IF s = << >> THEN 0 ELSE SumSeq(Take(s, Len(s) - 1)) + Last(s)

\* codeprep.util.misc.cum_sum: the running totals of a list
cum_sum(s) == [i \in 1..Len(s) |-> SumSeq(Take(s, i))]

\* list[i] with Python's index rules: a negative index counts from the end,
\* anything outside -len..len-1 raises IndexError
PyIndex(s, i) ==
    IF 0 <= i /\ i < Len(s) THEN [ok |-> TRUE, val |-> s[i + 1]]
    ELSE IF i < 0 /\ -Len(s) <= i THEN [ok |-> TRUE, val |-> s[Len(s) + i + 1]]
    ELSE [ok |-> FALSE, val |-> 0]

\* A slip in the choice of the search: bisect.bisect_left, which stops at the
\* first entry that is not below x where bisect_right goes past the entries
\* equal to x
RECURSIVE bisect_left(_, _, _, _)
bisect_left(a, x, lo, hi) ==
    IF lo < hi
    THEN LET mid == (lo + hi) \div 2
         IN  IF a[mid + 1] < x THEN bisect_left(a, x, mid + 1, hi)
                               ELSE bisect_left(a, x, lo, mid)
    ELSE lo

\* bisect.bisect_right(a, x, lo, hi)
RECURSIVE bisect_right(_, _, _, _)
bisect_right(a, x, lo, hi) ==
    IF lo < hi
    THEN LET mid == (lo + hi) \div 2
         IN  IF x < a[mid + 1] THEN bisect_right(a, x, lo, mid)
                               ELSE bisect_right(a, x, mid + 1, hi)
    ELSE lo

\* ------------------------------------------------------ PureSnippetStructure
PureSnippetStructure(lines, cumul) ==
    [subtokens_in_each_line |-> lines, cumulative_sizes |-> cumul]

PureOf(lines) == PureSnippetStructure(lines, cum_sum(lines))

\* PureSnippetStructure.__len__
PureLen(self) == Last(self.cumulative_sizes)

\* A slip of _merge_lines: the two lists concatenated, the shared line not fused
merge_lines_unfused(self, other) ==
    [lines |-> self.subtokens_in_each_line \o other.subtokens_in_each_line,
     cumul |-> self.cumulative_sizes
               \o [i \in 1..Len(other.cumulative_sizes) |->
                       other.cumulative_sizes[i] + Last(self.cumulative_sizes)]]

merge_lines(self, other) ==
    LET lines_combines ==
            Take(self.subtokens_in_each_line, Len(self.subtokens_in_each_line) - 1)
            \o << Last(self.subtokens_in_each_line) + other.subtokens_in_each_line[1] >>
            \o Drop(other.subtokens_in_each_line, 1)
        cumul ==
            Take(self.cumulative_sizes, Len(self.cumulative_sizes) - 1)
            \o [i \in 1..Len(other.cumulative_sizes) |->
                    other.cumulative_sizes[i] + Last(self.cumulative_sizes)]
    IN  [lines |-> lines_combines, cumul |-> cumul]

\* A slip of _split_lines, line 48: the search stops at the first line whose
\* running total reaches the split point
line_to_be_split_at_first_reached(self, second_part_start_index) ==
    bisect_left(self.cumulative_sizes, second_part_start_index, 0,
                Len(self.cumulative_sizes))

\* _split_lines, line 48: the line the split point falls in
line_to_be_split(self, second_part_start_index) ==
    bisect_right(self.cumulative_sizes, second_part_start_index, 0,
                 Len(self.cumulative_sizes))

\* A slip of _split_lines, line 49: the lines before the split line forgotten
total_lengths_forgotten(self, line) == 0

\* _split_lines, line 49
total_lengths_of_previous_lines(self, line) ==
    IF line > 0 THEN self.cumulative_sizes[line] ELSE 0

split_lines(self, second_part_start_index) ==
    LET lines == self.subtokens_in_each_line
        cum == self.cumulative_sizes
        line == line_to_be_split(self, second_part_start_index)
        position_to_split_in_line ==
            second_part_start_index - total_lengths_of_previous_lines(self, line)
        head == Take(lines, line)
        cumul_head == Take(cum, line)
        inside == line < Len(lines)
        lines_in_first ==
            IF inside THEN Append(head, position_to_split_in_line) ELSE head
        cumul_lines_in_first ==
            IF inside
            THEN Append(cumul_head,
                        (IF cumul_head # << >> THEN Last(cumul_head) ELSE 0)
                        + position_to_split_in_line)
            ELSE cumul_head
        first_line_in_second ==
            IF inside THEN << lines[line + 1] - position_to_split_in_line >>
                      ELSE << 0 >>
        lines_in_second == first_line_in_second \o Drop(lines, line + 1)
    IN  [lines_in_first |-> lines_in_first,
         cumul_lines_in_first |-> cumul_lines_in_first,
         lines_in_second |-> lines_in_second]

PureSplit(self, second_part_start_index) ==
    LET r == split_lines(self, second_part_start_index)
    IN  [first |-> PureSnippetStructure(r.lines_in_first, r.cumul_lines_in_first),
         second |-> PureOf(r.lines_in_second)]

\* ---------------------------------------------------------- SnippetStructure
SnippetStructure(lines, cumul, path, first_line, first_token_in_line) ==
    [subtokens_in_each_line |-> lines, cumulative_sizes |-> cumul,
     path |-> path, first_line |-> first_line,
     first_token_in_line |-> first_token_in_line]

from_path_and_lines(path, lines, first_line, first_token_in_line) ==
    SnippetStructure(lines, cum_sum(lines), path, first_line, first_token_in_line)

untie_from_file(self) ==
    PureSnippetStructure(self.subtokens_in_each_line, self.cumulative_sizes)

\* SnippetStructure.__len__
SnippetLen(self) == PureLen(untie_from_file(self))

\* The dataclass __eq__: _cumulative_sizes is declared compare=False
SnippetEq(s, t) ==
    /\ s.subtokens_in_each_line = t.subtokens_in_each_line
    /\ s.path = t.path
    /\ s.first_line = t.first_line
    /\ s.first_token_in_line = t.first_token_in_line

last_line(self) == self.first_line + Len(self.subtokens_in_each_line) - 1

\* A slip of last_token_position_at_line: first_token_in_line not added
last_token_position_without_offset(self, line) ==
    PyIndex(self.subtokens_in_each_line, line - self.first_line)

\* [ok |-> FALSE] is the IndexError of the list access
last_token_position_at_line(self, line) ==
    LET relative_line == line - self.first_line
        at == PyIndex(self.subtokens_in_each_line, relative_line)
    IN  IF ~at.ok THEN at
        ELSE IF relative_line = 0
             THEN [ok |-> TRUE, val |-> at.val + self.first_token_in_line]
             ELSE at

\* The value slot of a call that raised
NoSnippet == SnippetStructure(<< >>, << >>, "", 0, 0)

SnippetMerge(self, other) ==
    IF self.path # other.path
    THEN [ok |-> FALSE, err |-> "ValueError: Cannot merge two different files.",
          val |-> NoSnippet]
    ELSE IF last_line(self) # other.first_line
    THEN [ok |-> FALSE, err |-> "ValueError: Snippets are not adjacent.",
          val |-> NoSnippet]
    ELSE LET at == last_token_position_at_line(self, other.first_line)
         IN  IF ~at.ok
             THEN [ok |-> FALSE, err |-> "IndexError", val |-> NoSnippet]
             ELSE IF at.val # other.first_token_in_line
             THEN [ok |-> FALSE, err |-> "ValueError: Snippets are not adjacent.",
                   val |-> NoSnippet]
             ELSE LET m == merge_lines(self, other)
                  IN  [ok |-> TRUE, err |-> "",
                       val |-> SnippetStructure(m.lines, m.cumul, self.path,
                                                self.first_line,
                                                self.first_token_in_line)]

\* A slip of SnippetStructure.split: the start column of self not carried over
\* to a second half that starts on self's first line
SnippetSplitColumnLost(self, second_part_start_index) ==
    LET r == split_lines(self, second_part_start_index)
        lines1 == r.lines_in_first
    IN  [first |-> SnippetStructure(lines1, r.cumul_lines_in_first, self.path,
                                    self.first_line, self.first_token_in_line),
         second |-> from_path_and_lines(self.path, r.lines_in_second,
                                        self.first_line + Len(lines1) - 1,
                                        Last(lines1))]

\* A slip of SnippetStructure.split, line 145: the line the two halves share
\* counted twice, so that the second half starts one line too far
SnippetSplitLineTooFar(self, second_part_start_index) ==
    LET r == split_lines(self, second_part_start_index)
        lines1 == r.lines_in_first
        first_token_in_line ==
            Last(lines1) + (IF Len(lines1) = 1 THEN self.first_token_in_line ELSE 0)
    IN  [first |-> SnippetStructure(lines1, r.cumul_lines_in_first, self.path,
                                    self.first_line, self.first_token_in_line),
         second |-> from_path_and_lines(self.path, r.lines_in_second,
                                        self.first_line + Len(lines1),
                                        first_token_in_line)]

SnippetSplit(self, second_part_start_index) ==
    LET r == split_lines(self, second_part_start_index)
        lines1 == r.lines_in_first
        first_token_in_line ==
            Last(lines1) + (IF Len(lines1) = 1 THEN self.first_token_in_line ELSE 0)
    IN  [first |-> SnippetStructure(lines1, r.cumul_lines_in_first, self.path,
                                    self.first_line, self.first_token_in_line),
         second |-> from_path_and_lines(self.path, r.lines_in_second,
                                        self.first_line + Len(lines1) - 1,
                                        first_token_in_line)]

\* ------------------------------------------------------------- CodeLocation
CodeLocation(path, line, token) == [path |-> path, line |-> line, token |-> token]

NoLocation == CodeLocation("", 0, 0)

\* ---------------------------------------------------------- SnippetIterator
\* kind "snippet" is a SnippetIterator; kind "list" is iter([]), the iterator
\* CodeBaseIterator takes when the code base has no snippets.
\* A slip of SnippetIterator.__init__: the first line started at column 0
SnippetIteratorFromColumnZero(snippet_structure) ==
    [kind |-> "snippet", snippet_structure |-> snippet_structure,
     current_line |-> snippet_structure.first_line,
     current_token |-> 0]

SnippetIterator(snippet_structure) ==
    [kind |-> "snippet", snippet_structure |-> snippet_structure,
     current_line |-> snippet_structure.first_line,
     current_token |-> snippet_structure.first_token_in_line]

EmptyListIterator ==
    [kind |-> "list", snippet_structure |-> NoSnippet,
     current_line |-> 0, current_token |-> 0]

\* One call of SnippetIterator.__next__: the iterator after the call and the
\* outcome, "value" (with the location), "StopIteration" or "IndexError".
RECURSIVE SnippetNext(_)
SnippetNext(it) ==
    LET at == last_token_position_at_line(it.snippet_structure, it.current_line)
    IN  IF ~at.ok
        THEN [it |-> it, outcome |-> "IndexError", loc |-> NoLocation]
        ELSE IF it.current_token = at.val
        THEN LET moved == [it EXCEPT !.current_line = @ + 1]
             IN  IF moved.current_line > last_line(it.snippet_structure)
                 THEN [it |-> moved, outcome |-> "StopIteration", loc |-> NoLocation]
                 ELSE SnippetNext([moved EXCEPT !.current_token = 0])
        ELSE [it |-> [it EXCEPT !.current_token = @ + 1],
              outcome |-> "value",
              loc |-> CodeLocation(it.snippet_structure.path, it.current_line,
                                   it.current_token)]

\* next() on either kind of iterator
IterNext(it) ==
    IF it.kind = "list"
    THEN [it |-> it, outcome |-> "StopIteration", loc |-> NoLocation]
    ELSE SnippetNext(it)

\* --------------------------------------------------------- CodeBaseIterator
\* The iterator reads code_base_structure.snippets, the live list, which the
\* operators below take as the parameter snippets.
CodeBaseIterator(snippets) ==
    [current_snippet |-> 0,
     snippet_iterator |-> IF snippets # << >> THEN SnippetIterator(snippets[1])
                                              ELSE EmptyListIterator]

\* The while loop of CodeBaseIterator.__next__, entered with current_snippet
\* already advanced; last is the iterator self.snippet_iterator holds.
RECURSIVE CodeBaseAdvance(_, _, _)
CodeBaseAdvance(snippets, current_snippet, last) ==
    IF current_snippet < Len(snippets)
    THEN LET r == IterNext(SnippetIterator(snippets[current_snippet + 1]))
         IN  IF r.outcome = "StopIteration"
             THEN CodeBaseAdvance(snippets, current_snippet + 1, r.it)
             ELSE [it |-> [current_snippet |-> current_snippet,
                           snippet_iterator |-> r.it],
                   outcome |-> r.outcome, loc |-> r.loc]
    ELSE [it |-> [current_snippet |-> current_snippet, snippet_iterator |-> last],
          outcome |-> "StopIteration", loc |-> NoLocation]

CodeBaseNext(it, snippets) ==
    LET r == IterNext(it.snippet_iterator)
    IN  IF r.outcome = "StopIteration"
        THEN CodeBaseAdvance(snippets, it.current_snippet + 1, r.it)
        ELSE [it |-> [it EXCEPT !.snippet_iterator = r.it],
              outcome |-> r.outcome, loc |-> r.loc]

\* list(iter(snippet)): the locations yielded up to the first StopIteration
\* (or error), which ends the loop.
RECURSIVE SnippetDrain(_)
SnippetDrain(it) ==
    LET r == IterNext(it)
    IN  IF r.outcome = "value" THEN << r.loc >> \o SnippetDrain(r.it) ELSE << >>

\* list(iter(code_base_structure))
RECURSIVE CodeBaseDrain(_, _)
CodeBaseDrain(it, snippets) ==
    LET r == CodeBaseNext(it, snippets)
    IN  IF r.outcome = "value" THEN << r.loc >> \o CodeBaseDrain(r.it, snippets)
        ELSE << >>

Locations(snippets) == CodeBaseDrain(CodeBaseIterator(snippets), snippets)

\* --------------------------------------------------------- CodeBaseStructure
\* The two lists of one CodeBaseStructure
CodeBaseStructure(snippets, cumul) ==
    [snippets |-> snippets, cumulative_sizes |-> cumul]

CodeBaseEmpty == CodeBaseStructure(<< >>, << >>)

CodeBaseOf(snippets) ==
    CodeBaseStructure(snippets,
                      cum_sum([i \in 1..Len(snippets) |-> SnippetLen(snippets[i])]))

\* CodeBaseStructure.__len__
CodeBaseLen(self) ==
    IF self.cumulative_sizes # << >> THEN Last(self.cumulative_sizes) ELSE 0

\* A slip of add_snippet: every snippet appended as a new run, none coalesced
add_snippet_never_coalescing(self, prepped_snippet) ==
    [ok |-> TRUE, err |-> "",
     val |-> CodeBaseStructure(
                 Append(self.snippets, prepped_snippet),
                 Append(self.cumulative_sizes,
                        CodeBaseLen(self) + SnippetLen(prepped_snippet)))]

\* A slip of add_snippet, line 270: the running total of the run left as it
\* was when a snippet is coalesced into it
add_snippet_total_forgotten(self, prepped_snippet) ==
    IF self.snippets = << >> \/ Last(self.snippets).path # prepped_snippet.path
    THEN [ok |-> TRUE, err |-> "",
          val |-> CodeBaseStructure(
                      Append(self.snippets, prepped_snippet),
                      Append(self.cumulative_sizes,
                             CodeBaseLen(self) + SnippetLen(prepped_snippet)))]
    ELSE LET m == SnippetMerge(Last(self.snippets), prepped_snippet)
             n == Len(self.snippets)
         IN  IF ~m.ok THEN [ok |-> FALSE, err |-> m.err, val |-> self]
             ELSE [ok |-> TRUE, err |-> "",
                   val |-> CodeBaseStructure(
                               [self.snippets EXCEPT ![n] = m.val],
                               self.cumulative_sizes)]

\* The lists of self after add_snippet; when merge raises nothing was assigned
add_snippet(self, prepped_snippet) ==
    IF self.snippets = << >> \/ Last(self.snippets).path # prepped_snippet.path
    THEN [ok |-> TRUE, err |-> "",
          val |-> CodeBaseStructure(
                      Append(self.snippets, prepped_snippet),
                      Append(self.cumulative_sizes,
                             CodeBaseLen(self) + SnippetLen(prepped_snippet)))]
    ELSE LET m == SnippetMerge(Last(self.snippets), prepped_snippet)
             n == Len(self.snippets)
         IN  IF ~m.ok THEN [ok |-> FALSE, err |-> m.err, val |-> self]
             ELSE [ok |-> TRUE, err |-> "",
                   val |-> CodeBaseStructure(
                               [self.snippets EXCEPT ![n] = m.val],
                               [self.cumulative_sizes EXCEPT
                                    ![n] = @ + SnippetLen(prepped_snippet)])]

\* The loop of CodeBaseStructure.merge from the i-th (1-based) snippet of the
\* other structure on: the lists of self when the loop ends or raises
RECURSIVE merge_from(_, _, _)
merge_from(self, snippets, i) ==
    IF i > Len(snippets) THEN [ok |-> TRUE, err |-> "", val |-> self]
    ELSE LET r == add_snippet(self, snippets[i])
         IN  IF ~r.ok THEN r ELSE merge_from(r.val, snippets, i + 1)

CodeBaseMerge(self, code_base_structure) ==
    merge_from(self, code_base_structure.snippets, 1)

\* shares says that first is built on the very lists of self (line 292)
CodeBaseSplit(self, second_part_start_index) ==
    LET cum == self.cumulative_sizes
        snippet_to_be_split == bisect_right(cum, second_part_start_index, 0, Len(cum))
        total_lengths_of_previous_snippets ==
            IF snippet_to_be_split > 0 THEN cum[snippet_to_be_split] ELSE 0
        position_to_split_in_snippet ==
            second_part_start_index - total_lengths_of_previous_snippets
    IN  IF snippet_to_be_split < Len(cum)
        THEN LET h == SnippetSplit(self.snippets[snippet_to_be_split + 1],
                                   position_to_split_in_snippet)
                 first_code_base_structure ==
                     CodeBaseStructure(Take(self.snippets, snippet_to_be_split),
                                       Take(cum, snippet_to_be_split))
                 added == IF SnippetLen(h.first) > 0
                          THEN add_snippet(first_code_base_structure, h.first)
                          ELSE [ok |-> TRUE, err |-> "",
                                val |-> first_code_base_structure]
                 snippets_in_second ==
                     << h.second >> \o Drop(self.snippets, snippet_to_be_split + 1)
             IN  IF ~added.ok
                 THEN [ok |-> FALSE, err |-> added.err, shares |-> FALSE,
                       first |-> CodeBaseEmpty, second |-> CodeBaseEmpty]
                 ELSE [ok |-> TRUE, err |-> "", shares |-> FALSE,
                       first |-> added.val,
                       second |-> CodeBaseOf(snippets_in_second)]
        ELSE [ok |-> TRUE, err |-> "", shares |-> TRUE,
              first |-> CodeBaseStructure(self.snippets, cum),
              second |-> CodeBaseEmpty]

\* ==================================================================== state
VARIABLES
    \* snippet-level runs: one snippet and the calls made on it
    snippet,      \* the SnippetStructure under test
    phase,        \* which call was made last on it
    halves,       \* (first, second) of snippet.split(offset)
    pure_halves,  \* (first, second) of snippet.untie_from_file().split(offset)
    other,        \* the argument of merge
    merged,       \* the outcome of merge
    ltp,          \* the outcome of last_token_position_at_line(line)
    iterator,     \* iter(snippet)
    outcome,      \* what the last next(iterator) did
    yielded,      \* the locations next(iterator) returned so far
    \* corpus-level runs: the CodeBaseStructure objects of a client
    obj,          \* name -> the storage cell the name is bound to (0: unbound)
    mem,          \* storage cell -> its snippets and _cumulative_sizes lists
    hist,         \* the calls made so far, oldest first
    nops          \* the part of the budget MaxOps the calls used up

snippet_vars == << snippet, phase, halves, pure_halves, other, merged, ltp,
                   iterator, outcome, yielded >>
corpus_vars == << obj, mem, hist, nops >>
vars == << snippet, phase, halves, pure_halves, other, merged, ltp,
           iterator, outcome, yielded, obj, mem, hist, nops >>

\* ------------------------------------------------------------------ inputs
RECURSIVE SeqsUpTo(_, _)
SeqsUpTo(S, n) ==
    IF n = 0 THEN {<< >>}
    ELSE LET shorter == SeqsUpTo(S, n - 1)
         IN  shorter \cup {Append(s, x) : s \in shorter, x \in S}

\* Non-empty lists of non-negative per-line counts
LineSeqs == SeqsUpTo(0..MaxCount, MaxLines) \ {<< >>}

SnippetPool ==
    {from_path_and_lines(p, l, fl, c) :
        p \in Paths, l \in LineSeqs, fl \in FirstLines, c \in Cols}

\* Arguments of merge: also the lines and columns right after any pool snippet
OtherPool ==
    {from_path_and_lines(p, l, fl, c) :
        p \in Paths, l \in {<<0>>, <<1>>, <<1, 0>>, <<0, 2>>},
        fl \in 1..(MaxLines + 1), c \in 0..(MaxCount + 1)}

\* Lines asked of last_token_position_at_line: below, inside and above
QueryLines == -2..(2 + MaxLines + 1)

NoHalves == [offset |-> -1, first |-> NoSnippet, second |-> NoSnippet]
NoPure == PureSnippetStructure(<< >>, << >>)
NoPureHalves == [offset |-> -1, first |-> NoPure, second |-> NoPure]
NoMerged == [ok |-> FALSE, err |-> "not called", val |-> NoSnippet]
NoLtp == [line |-> 0, ok |-> FALSE, val |-> 0]

SnippetIdle ==
    /\ snippet = NoSnippet
    /\ phase = "idle"
    /\ halves = NoHalves
    /\ pure_halves = NoPureHalves
    /\ other = NoSnippet
    /\ merged = NoMerged
    /\ ltp = NoLtp
    /\ iterator = EmptyListIterator
    /\ outcome = "none"
    /\ yielded = << >>

\* --------------------------------------------------- snippet-level actions
\* first, second = snippet.split(offset)
Split(offset) ==
    /\ phase = "new"
    /\ halves' = [offset |-> offset] @@ SnippetSplit(snippet, offset)
    /\ phase' = "split"
    /\ UNCHANGED << snippet, pure_halves, other, merged, ltp, iterator, outcome,
                    yielded, corpus_vars >>

\* first, second = snippet.untie_from_file().split(offset)
SplitPure(offset) ==
    /\ phase = "new"
    /\ pure_halves' = [offset |-> offset] @@ PureSplit(untie_from_file(snippet), offset)
    /\ phase' = "pure_split"
    /\ UNCHANGED << snippet, halves, other, merged, ltp, iterator, outcome, yielded,
                    corpus_vars >>

\* first.merge(second) on the two halves of a split
MergeHalves ==
    /\ phase = "split"
    /\ other' = halves.second
    /\ merged' = SnippetMerge(halves.first, halves.second)
    /\ phase' = "remerged"
    /\ UNCHANGED << snippet, halves, pure_halves, ltp, iterator, outcome, yielded,
                    corpus_vars >>

\* snippet.merge(o)
Merge(o) ==
    /\ phase = "new"
    /\ other' = o
    /\ merged' = SnippetMerge(snippet, o)
    /\ phase' = "merge"
    /\ UNCHANGED << snippet, halves, pure_halves, ltp, iterator, outcome, yielded,
                    corpus_vars >>

\* snippet.last_token_position_at_line(line)
LastTokenPosition(line) ==
    /\ phase = "new"
    /\ ltp' = [line |-> line] @@ last_token_position_at_line(snippet, line)
    /\ phase' = "ltp"
    /\ UNCHANGED << snippet, halves, pure_halves, other, merged, iterator, outcome,
                    yielded, corpus_vars >>

\* next(iterator)
SnippetIterNext ==
    /\ phase \in {"new", "iter"}
    /\ LET r == IterNext(iterator)
       IN  /\ iterator' = r.it
           /\ outcome' = r.outcome
           /\ yielded' = IF r.outcome = "value" THEN Append(yielded, r.loc)
                                                ELSE yielded
    /\ phase' = "iter"
    /\ UNCHANGED << snippet, halves, pure_halves, other, merged, ltp, corpus_vars >>

\* A client's names for code base structures: X, and the two halves L, R of
\* its last split
Names == {"X", "L", "R"}

\* Storage cells: a cell is the pair of list objects (snippets,
\* _cumulative_sizes) of one structure. Two names bound to one cell are two
\* structures built on the same lists, or the same structure.
Cells == 1..3

CorpusIdle ==
    /\ obj = [n \in Names |-> 0]
    /\ mem = [c \in Cells |-> CodeBaseEmpty]
    /\ hist = << >>
    /\ nops = 0

InitSnippet ==
    /\ snippet \in SnippetPool
    /\ phase = "new"
    /\ halves = NoHalves
    /\ pure_halves = NoPureHalves
    /\ other = NoSnippet
    /\ merged = NoMerged
    /\ ltp = NoLtp
    /\ iterator = SnippetIterator(snippet)
    /\ outcome = "none"
    /\ yielded = << >>
    /\ CorpusIdle

NextSnippet ==
    \/ \E offset \in 0..(SnippetLen(snippet) + 1) : Split(offset)
    \/ \E offset \in 0..(SnippetLen(snippet) + 1) : SplitPure(offset)
    \/ MergeHalves
    \/ \E o \in SnippetPool \cup OtherPool : Merge(o)
    \/ \E line \in QueryLines : LastTokenPosition(line)
    \/ SnippetIterNext

SpecSnippet == InitSnippet /\ [][NextSnippet]_vars

\* ---------------------------------------------------- corpus-level actions
\* The snippets a client appends: two files, blank first lines, empty
\* snippets, and columns that make some pairs adjacent and others not
CorpusLines == {<<0>>, <<1>>, <<2>>, <<0, 1>>}

CorpusPool ==
    {from_path_and_lines(p, l, 1, c) : p \in Paths, l \in CorpusLines, c \in Cols}

\* The lists a client hands to CodeBaseStructure.of
OfLists == SeqsUpTo(CorpusPool, 2)

Bound(n) == obj[n] # 0

\* The structure a name is bound to
Value(n) == mem[obj[n]]

\* The first cell outside used
Fresh(used) == CHOOSE c \in Cells \ used : \A d \in Cells \ used : c <= d

\* Cells no name is bound to any more are cleared
Collect(o, m) ==
    [c \in Cells |-> IF \E n \in Names : o[n] = c THEN m[c] ELSE CodeBaseEmpty]

Record(op, self, arg, raised) ==
    [op |-> op, self |-> self, arg |-> arg, raised |-> raised]

\* X = CodeBaseStructure.of(list) instead of empty(), as a client's first
\* call; a list of k snippets uses up as much of the budget as the k calls of
\* add_snippet it stands for
Of(list) ==
    /\ hist = << >>
    /\ nops + (IF Len(list) > 1 THEN Len(list) ELSE 1) <= MaxOps
    /\ LET c == Fresh({obj["L"], obj["R"]})
       IN  /\ obj' = [obj EXCEPT !["X"] = c]
           /\ mem' = Collect(obj', [mem EXCEPT ![c] = CodeBaseOf(list)])
    /\ hist' = Append(hist, Record("of", "X", list, FALSE))
    /\ nops' = nops + (IF Len(list) > 1 THEN Len(list) ELSE 1)
    /\ UNCHANGED snippet_vars

\* n.add_snippet(s): the lists of n's cell are changed in place
AddSnippet(n, s) ==
    /\ Bound(n)
    /\ nops < MaxOps
    /\ LET r == add_snippet(Value(n), s)
       IN  /\ mem' = [mem EXCEPT ![obj[n]] = r.val]
           /\ hist' = Append(hist, Record("add_snippet", n, s, ~r.ok))
    /\ nops' = nops + 1
    /\ UNCHANGED << obj, snippet_vars >>

\* n.merge(m), for two structures on different lists (on the same lists the
\* loop of merge walks the list it appends to)
MergeBases(n, m) ==
    /\ Bound(n)
    /\ Bound(m)
    /\ obj[n] # obj[m]
    /\ nops < MaxOps
    /\ LET r == CodeBaseMerge(Value(n), Value(m))
       IN  /\ mem' = [mem EXCEPT ![obj[n]] = r.val]
           /\ hist' = Append(hist, Record("merge", n, m, ~r.ok))
    /\ nops' = nops + 1
    /\ UNCHANGED << obj, snippet_vars >>

\* n.merge(CodeBaseStructure.of(list)): the argument is a structure made for
\* the call, which no name keeps; a list of k snippets uses up k of the budget
\* (with one snippet the call does what add_snippet does, with none nothing)
MergeOf(n, list) ==
    /\ Bound(n)
    /\ Len(list) > 1
    /\ nops + Len(list) <= MaxOps
    /\ LET r == CodeBaseMerge(Value(n), CodeBaseOf(list))
       IN  /\ mem' = [mem EXCEPT ![obj[n]] = r.val]
           /\ hist' = Append(hist, Record("merge_of", n, list, ~r.ok))
    /\ nops' = nops + Len(list)
    /\ UNCHANGED << obj, snippet_vars >>

\* L, R = X.split(offset)
SplitBase(offset) ==
    /\ Bound("X")
    /\ nops < MaxOps
    /\ LET r == CodeBaseSplit(Value("X"), offset)
           x == obj["X"]
           cl == IF r.shares THEN x ELSE Fresh({x})
           cr == Fresh({x, cl})
       IN  /\ IF r.ok
              THEN /\ obj' = [obj EXCEPT !["L"] = cl, !["R"] = cr]
                   /\ mem' = Collect(obj', [mem EXCEPT ![cl] = r.first,
                                                       ![cr] = r.second])
              ELSE UNCHANGED << obj, mem >>
           /\ hist' = Append(hist, Record("split", "X", offset, ~r.ok))
    /\ nops' = nops + 1
    /\ UNCHANGED snippet_vars

\* X = n: the client goes on with one half of the split
Rebind(n) ==
    /\ n \in {"L", "R"}
    /\ Bound(n)
    /\ obj[n] # obj["X"]
    /\ nops < MaxOps
    /\ obj' = [obj EXCEPT !["X"] = obj[n]]
    /\ mem' = Collect(obj', mem)
    /\ hist' = Append(hist, Record("rebind", "X", n, FALSE))
    /\ nops' = nops + 1
    /\ UNCHANGED snippet_vars

\* X = CodeBaseStructure.empty()
Init ==
    /\ obj = [n \in Names |-> IF n = "X" THEN 1 ELSE 0]
    /\ mem = [c \in Cells |-> CodeBaseEmpty]
    /\ hist = << >>
    /\ nops = 0
    /\ SnippetIdle

Next ==
    \/ \E list \in OfLists : Of(list)
    \/ \E n \in Names, s \in CorpusPool : AddSnippet(n, s)
    \/ \E n \in Names, m \in Names : MergeBases(n, m)
    \/ \E offset \in 0..(CodeBaseLen(Value("X")) + 1) : SplitBase(offset)
    \/ \E n \in Names : Rebind(n)

Spec == Init /\ [][Next]_vars

\* The same runs, with merge also given structures made for the call
NextWithMergeOf ==
    \/ Next
    \/ \E n \in Names, list \in OfLists : MergeOf(n, list)

SpecWithMergeOf == Init /\ [][NextWithMergeOf]_vars

\* ============================================== claims on the snippet level
\* What the claims call the column right after the last token of s on its
\* last line
EndColumn(s) ==
    Last(s.subtokens_in_each_line)
    + (IF Len(s.subtokens_in_each_line) = 1 THEN s.first_token_in_line ELSE 0)

\* The locations of line i (0-based) of s from column c on, in column order
RECURSIVE LineLocations(_, _, _, _)
LineLocations(s, i, c, left) ==
    IF left = 0 THEN << >>
    ELSE << CodeLocation(s.path, s.first_line + i, c) >>
         \o LineLocations(s, i, c + 1, left - 1)

\* The locations the claims say iteration yields, from line i (0-based) on
RECURSIVE ExpectedLocations(_, _)
ExpectedLocations(s, i) ==
    IF i >= Len(s.subtokens_in_each_line) THEN << >>
    ELSE LineLocations(s, i, IF i = 0 THEN s.first_token_in_line ELSE 0,
                       s.subtokens_in_each_line[i + 1])
         \o ExpectedLocations(s, i + 1)

IsPrefix(s, whole) == Len(s) <= Len(whole) /\ s = Take(whole, Len(s))

\* C2: for 0 <= i <= length(S), the halves of S.split(i) merge without an
\* error into a snippet structurally equal to S.
C2_SplitThenMergeRestores ==
    (phase = "remerged" /\ halves.offset <= SnippetLen(snippet))
        => /\ merged.ok
           /\ SnippetEq(merged.val, snippet)
           /\ merged.val.subtokens_in_each_line = snippet.subtokens_in_each_line

C2_Witness ==
    /\ phase = "remerged"
    /\ merged.ok
    /\ Len(snippet.subtokens_in_each_line) = 2
    /\ snippet.first_token_in_line > 0
    /\ 0 < halves.offset
    /\ halves.offset < SnippetLen(snippet)

\* C4: for 0 <= offset <= length(S), the halves of S.split(offset) have the
\* lengths offset and length(S) - offset, for a located snippet and for a bare
\* line-count sequence alike.
C4_SplitLengths ==
    /\ (phase = "split" /\ halves.offset <= SnippetLen(snippet))
        => /\ SnippetLen(halves.first) = halves.offset
           /\ SnippetLen(halves.second) = SnippetLen(snippet) - halves.offset
    /\ (phase = "pure_split" /\ pure_halves.offset <= SnippetLen(snippet))
        => /\ PureLen(pure_halves.first) = pure_halves.offset
           /\ PureLen(pure_halves.second) = SnippetLen(snippet) - pure_halves.offset

C4_Witness ==
    /\ phase = "split"
    /\ halves.offset = SnippetLen(snippet)
    /\ Len(snippet.subtokens_in_each_line) = 2
    /\ snippet.subtokens_in_each_line[1] > 0
    /\ snippet.subtokens_in_each_line[2] = 0

\* C5: merge raises the adjacency error (a ValueError) and returns nothing
\* when the paths differ, or self's last line is not other's first line, or
\* the column after self's last token is not other's first column; it
\* succeeds exactly when all three match, keeping self's path and start.
C5_MergeChecksAdjacency ==
    phase = "merge"
        => LET fits == /\ snippet.path = other.path
                       /\ last_line(snippet) = other.first_line
                       /\ EndColumn(snippet) = other.first_token_in_line
           IN  /\ merged.ok <=> fits
               /\ ~merged.ok
                    => /\ merged.err \in
                            {"ValueError: Cannot merge two different files.",
                             "ValueError: Snippets are not adjacent."}
                       /\ merged.val = NoSnippet
               /\ merged.ok
                    => /\ merged.val.path = snippet.path
                       /\ merged.val.first_line = snippet.first_line
                       /\ merged.val.first_token_in_line = snippet.first_token_in_line

C5_Witness ==
    /\ phase = "merge"
    /\ merged.ok
    /\ Len(snippet.subtokens_in_each_line) = 1
    /\ snippet.first_token_in_line > 0
    /\ SnippetLen(snippet) > 0
    /\ SnippetLen(other) > 0

\* C6: iterating a snippet yields, line by line and column by column, one
\* location per token: on the first line from first_token_in_line, on later
\* lines from 0, nothing for a line of count 0, length() locations in all,
\* each with the snippet's path.
C6_IterationYieldsEveryToken ==
    phase = "iter"
        => /\ IsPrefix(yielded, ExpectedLocations(snippet, 0))
           /\ outcome # "value"
                => /\ yielded = ExpectedLocations(snippet, 0)
                   /\ Len(yielded) = SnippetLen(snippet)

C6_Witness ==
    /\ phase = "iter"
    /\ outcome = "StopIteration"
    /\ snippet.first_token_in_line > 0
    /\ Len(snippet.subtokens_in_each_line) = 2
    /\ snippet.subtokens_in_each_line[1] = 0
    /\ snippet.subtokens_in_each_line[2] = 2

Covered(s, line) == s.first_line <= line /\ line <= last_line(s)

\* C10: last_token_position_at_line(line) fails for every line the snippet
\* does not cover, below first_line as well as above last_line(); for a
\* covered line it returns the line's count, plus first_token_in_line on the
\* first line.
C10_LastTokenPositionRange ==
    phase = "ltp"
        => /\ Covered(snippet, ltp.line)
                => /\ ltp.ok
                   /\ ltp.val = snippet.subtokens_in_each_line[ltp.line - snippet.first_line + 1]
                                + (IF ltp.line = snippet.first_line
                                   THEN snippet.first_token_in_line ELSE 0)
           /\ ~Covered(snippet, ltp.line) => ~ltp.ok

\* =============================================== claims on the corpus level
LastCall == hist[Len(hist)]

NoAdjacentSamePath(snippets) ==
    \A i \in 1..(Len(snippets) - 1) : snippets[i].path # snippets[i + 1].path

\* Every structure the client holds is free of consecutive same-path snippets
AllCoalesced == \A n \in Names : Bound(n) => NoAdjacentSamePath(Value(n).snippets)

\* Same snippets in the same order, compared as the dataclasses compare
SameSnippets(s, u) ==
    /\ Len(s) = Len(u)
    /\ \A i \in 1..Len(s) : SnippetEq(s[i], u[i])

\* C1: for 0 <= i <= length(X) and (L, R) = X.split(i), the locations
\* iterated from L followed by those iterated from R are the locations
\* iterated from X, and L yields exactly i of them.
C1_SplitKeepsLocations ==
    (/\ hist # << >>
     /\ LastCall.op = "split"
     /\ ~LastCall.raised
     /\ LastCall.arg <= CodeBaseLen(Value("X")))
        => /\ Locations(Value("L").snippets) \o Locations(Value("R").snippets)
                = Locations(Value("X").snippets)
           /\ Len(Locations(Value("L").snippets)) = LastCall.arg

C1_Witness ==
    /\ hist # << >>
    /\ LastCall.op = "split"
    /\ ~LastCall.raised
    /\ 0 < LastCall.arg
    /\ LastCall.arg < CodeBaseLen(Value("X"))
    /\ Len(Value("X").snippets) = 2
    /\ Len(Value("L").snippets) = 2
    /\ Value("R").snippets[1].first_token_in_line = 2

\* C3: for X built from empty() by append calls and 0 <= i <= length(X),
\* with (L, R) = X.split(i), L.merge(R) is structurally equal to X: the same
\* snippets in the same order, no zero-count line dropped.
C3_SplitThenMergeRestoresIndex ==
    (/\ Len(hist) >= 2
     /\ LastCall.op = "merge"
     /\ LastCall.self = "L"
     /\ LastCall.arg = "R"
     /\ hist[Len(hist) - 1].op = "split"
     /\ ~hist[Len(hist) - 1].raised
     /\ hist[Len(hist) - 1].arg <= CodeBaseLen(Value("X"))
     /\ \A i \in 1..(Len(hist) - 2) :
            hist[i].op = "add_snippet" /\ hist[i].self = "X" /\ ~hist[i].raised)
        => /\ ~LastCall.raised
           /\ SameSnippets(Value("L").snippets, Value("X").snippets)

\* C7 as claimed: no structure made by empty, of, add_snippet, merge and
\* split has two consecutive snippets of the same path.
C7_NeverAdjacentSamePath == AllCoalesced

\* C7 as amended: of keeps the list it is given; unless that list already
\* has two consecutive snippets of one path, no structure made by empty, of,
\* add_snippet, merge and split has two such snippets.
C7_CoalescedUnlessOfGivenUncoalesced ==
    (hist = << >> \/ hist[1].op # "of" \/ NoAdjacentSamePath(hist[1].arg))
        => AllCoalesced

C7_Witness ==
    /\ Len(hist) = 3
    /\ hist[1].op = "add_snippet"
    /\ hist[2].op = "add_snippet"
    /\ ~hist[2].raised
    /\ hist[1].arg.path = hist[2].arg.path
    /\ LastCall.op = "split"
    /\ Len(Value("L").snippets) = 1
    /\ Len(Value("R").snippets) = 1
    /\ CodeBaseLen(Value("L")) = 2
    /\ CodeBaseLen(Value("R")) = 1

\* C8: merge is pure: it leaves the snippets, prefix and length of its
\* receiver as they were, and leaves its argument unchanged.
C8_MergeLeavesReceiver ==
    [][(Len(hist') = Len(hist) + 1 /\ hist'[Len(hist')].op = "merge")
        => /\ mem'[obj[hist'[Len(hist')].self]] = mem[obj[hist'[Len(hist')].self]]
           /\ mem'[obj[hist'[Len(hist')].arg]] = mem[obj[hist'[Len(hist')].arg]]]_vars

\* C9: the halves of a split are independent of the structure that was
\* split: an add_snippet or merge on a half right after the split leaves the
\* snippets, prefix and length of X as they were, whatever the offset.
C9_HalvesAreIndependent ==
    [][(/\ hist # << >>
        /\ LastCall.op = "split"
        /\ ~LastCall.raised
        /\ Len(hist') = Len(hist) + 1
        /\ hist'[Len(hist')].op \in {"add_snippet", "merge"}
        /\ hist'[Len(hist')].self \in {"L", "R"})
        => mem'[obj["X"]] = mem[obj["X"]]]_vars

\* C11: when add_snippet or merge raises, the receiver is exactly as it was
\* before the call: nothing of the argument appended or coalesced, the prefix
\* unchanged, also when the snippet that fails is not the argument's first.
C11_FailedCallLeavesReceiver ==
    [][(/\ Len(hist') = Len(hist) + 1
        /\ hist'[Len(hist')].op \in {"add_snippet", "merge", "merge_of"}
        /\ hist'[Len(hist')].raised)
        => mem'[obj[hist'[Len(hist')].self]] = mem[obj[hist'[Len(hist')].self]]]_vars

\* C12: for every structure X and offset >= 0, the halves (L, R) that
\* X.split(offset) returns have len(L) = min(offset, len(X)) and
\* len(R) = len(X) - len(L); with offset >= len(X), L has exactly the
\* snippets of X and R is the empty structure, with no snippet at all.
C12_SplitLengths ==
    (/\ hist # << >>
     /\ LastCall.op = "split"
     /\ ~LastCall.raised)
        => /\ CodeBaseLen(Value("L")) = Min(LastCall.arg, CodeBaseLen(Value("X")))
           /\ CodeBaseLen(Value("R"))
                = CodeBaseLen(Value("X")) - CodeBaseLen(Value("L"))
           /\ LastCall.arg >= CodeBaseLen(Value("X"))
                => /\ SameSnippets(Value("L").snippets, Value("X").snippets)
                   /\ Value("R").snippets = << >>
                   /\ Value("R") = CodeBaseEmpty

\* A split at exactly the length of a structure of two snippets, the second
\* of them not empty
C12_Witness ==
    /\ hist # << >>
    /\ LastCall.op = "split"
    /\ ~LastCall.raised
    /\ LastCall.arg = CodeBaseLen(Value("X"))
    /\ Len(Value("X").snippets) = 2
    /\ SnippetLen(Value("X").snippets[2]) > 0
    /\ Len(Value("L").snippets) = 2
    /\ Value("R").snippets = << >>

\* ------------------------------------------ where a split cuts the lines
\* The 0-based indices of the lines whose running total is at least / above
\* the offset
LinesReaching(counts, offset) ==
    {i \in 0..(Len(counts) - 1) : cum_sum(counts)[i + 1] >= offset}

LinesAbove(counts, offset) ==
    {i \in 0..(Len(counts) - 1) : cum_sum(counts)[i + 1] > offset}

Least(S) == CHOOSE i \in S : \A j \in S : i <= j

\* The halves of counts cut in line i (0-based) at offset: the lines before
\* i and what of line i lies before the offset; the rest of line i and the
\* lines after it
CutInLine(counts, i, offset) ==
    LET before == IF i = 0 THEN 0 ELSE cum_sum(counts)[i]
    IN  [first |-> Append(Take(counts, i), offset - before),
         second |-> << counts[i + 1] - (offset - before) >> \o Drop(counts, i + 1)]

\* C13 as claimed: split(offset), 0 <= offset <= length, cuts in the first
\* line i whose running total prefix[i] is >= offset: the first half is
\* counts[0..i) and offset - prefix[i-1], the second half counts[i] less that
\* remainder and counts[i+1..].
C13_SplitsAtFirstPrefixAtLeast ==
    (/\ phase = "pure_split"
     /\ pure_halves.offset <= SnippetLen(snippet))
        => LET counts == snippet.subtokens_in_each_line
               cut == CutInLine(counts, Least(LinesReaching(counts, pure_halves.offset)),
                                pure_halves.offset)
           IN  /\ pure_halves.first.subtokens_in_each_line = cut.first
               /\ pure_halves.second.subtokens_in_each_line = cut.second

\* C13 as amended: split(offset), 0 <= offset <= length, cuts in the first
\* line i whose running total prefix[i] is > offset, so that a line ending
\* exactly at the offset, and the empty lines after it, stay in the first
\* half, which ends in a line of count 0; with offset = length no line is
\* above the offset: the first half is counts and the second half is [0].
C13_SplitsAtFirstPrefixAbove ==
    (/\ phase = "pure_split"
     /\ pure_halves.offset <= SnippetLen(snippet))
        => LET counts == snippet.subtokens_in_each_line
               above == LinesAbove(counts, pure_halves.offset)
               cut == IF above = {}
                      THEN [first |-> counts, second |-> << 0 >>]
                      ELSE CutInLine(counts, Least(above), pure_halves.offset)
           IN  /\ pure_halves.first.subtokens_in_each_line = cut.first
               /\ pure_halves.second.subtokens_in_each_line = cut.second

\* A split at the very end of a line that is not the last one
C13_Witness ==
    /\ phase = "pure_split"
    /\ Len(snippet.subtokens_in_each_line) = 2
    /\ snippet.subtokens_in_each_line[1] > 0
    /\ snippet.subtokens_in_each_line[2] > 0
    /\ pure_halves.offset = snippet.subtokens_in_each_line[1]
    /\ pure_halves.first.subtokens_in_each_line
            = << snippet.subtokens_in_each_line[1], 0 >>
    /\ pure_halves.second.subtokens_in_each_line
            = << snippet.subtokens_in_each_line[2] >>

\* ------------------------------------------ where the second half starts
\* C14 as claimed: for (a, b) = split(offset), a keeps first_token_in_line;
\* b's first_token_in_line is 0 unless the split is within the snippet's
\* first line, then it is first_token_in_line + offset; b's first_line is
\* first_line + (number of lines of a) - 1.
C14_SecondStartsAtColumnZero ==
    (/\ phase = "split"
     /\ halves.offset <= SnippetLen(snippet))
        => /\ halves.first.first_token_in_line = snippet.first_token_in_line
           /\ halves.second.first_token_in_line
                = (IF Len(halves.first.subtokens_in_each_line) = 1
                   THEN snippet.first_token_in_line + halves.offset
                   ELSE 0)
           /\ halves.second.first_line
                = snippet.first_line + Len(halves.first.subtokens_in_each_line) - 1

\* C14 as amended: a keeps first_token_in_line; b starts in the column after
\* the tokens a has on its last line: first_token_in_line + offset when the
\* split is within the snippet's first line, and on a later line the number
\* of tokens of that line before the offset, which is 0 only when the offset
\* is where the line begins; b's first_line is first_line + (number of lines
\* of a) - 1.
C14_SecondStartsAfterFirst ==
    (/\ phase = "split"
     /\ halves.offset <= SnippetLen(snippet))
        => LET counts == snippet.subtokens_in_each_line
               lines_in_a == Len(halves.first.subtokens_in_each_line)
               before == SumSeq(Take(counts, lines_in_a - 1))
           IN  /\ halves.first.first_token_in_line = snippet.first_token_in_line
               /\ halves.second.first_token_in_line
                    = (IF lines_in_a = 1
                       THEN snippet.first_token_in_line + halves.offset
                       ELSE halves.offset - before)
               /\ halves.second.first_line = snippet.first_line + lines_in_a - 1

\* A split inside the second line of a snippet that starts in column 1
C14_Witness ==
    /\ phase = "split"
    /\ snippet.first_token_in_line = 1
    /\ Len(snippet.subtokens_in_each_line) = 2
    /\ snippet.subtokens_in_each_line[1] > 0
    /\ halves.offset = snippet.subtokens_in_each_line[1] + 1
    /\ halves.offset < SnippetLen(snippet)
    /\ Len(halves.first.subtokens_in_each_line) = 2
    /\ halves.second.first_token_in_line = 1
    /\ halves.second.first_line = snippet.first_line + 1

\* ------------------------------------------------- the cached running sums
\* The running sums of a list of numbers, from the list alone
RunningSums(s) == [i \in 1..Len(s) |-> SumSeq(Take(s, i))]

FreshPrefix(s) == s.cumulative_sizes = RunningSums(s.subtokens_in_each_line)

FreshIndex(b) ==
    /\ \A i \in 1..Len(b.snippets) : FreshPrefix(b.snippets[i])
    /\ b.cumulative_sizes
        = RunningSums([i \in 1..Len(b.snippets) |->
                          SumSeq(b.snippets[i].subtokens_in_each_line)])

\* C15: the cached running sums are never stale: in every structure made by
\* of / from_path_and_lines, split, merge and add_snippet, in any order, each
\* snippet has one running sum per line, the i-th being the sum of the counts
\* up to line i, and each code base has one per snippet, the k-th being the
\* sum of the lengths of the snippets up to the k-th.
C15_PrefixNeverStale == \A n \in Names : Bound(n) => FreshIndex(Value(n))

\* A snippet has been coalesced into the second run of a code base, both runs
\* and the snippet with tokens
C15_Witness ==
    /\ hist # << >>
    /\ LastCall.op = "add_snippet"
    /\ ~LastCall.raised
    /\ SnippetLen(LastCall.arg) > 0
    /\ LET b == Value(LastCall.self)
       IN  /\ Len(b.snippets) = 2
           /\ b.snippets[2].path = LastCall.arg.path
           /\ SnippetLen(b.snippets[2]) > SnippetLen(LastCall.arg)
           /\ b.cumulative_sizes[1] > 0
           /\ b.cumulative_sizes[2] = b.cumulative_sizes[1] + SnippetLen(b.snippets[2])

\* ------------------------------------------------- an exhausted iterator
\* C16: exhaustion is stable: once next() on an iterator has raised
\* StopIteration, every later next() on it raises StopIteration again; it
\* raises no other error and yields no further location.
C16_ExhaustionIsStable ==
    [][outcome = "StopIteration"
        => (outcome' = "StopIteration" /\ yielded' = yielded)]_vars

====
